---- MODULE Spec2Model ----
(***************************************************************************)
(* Model of ecs_cluster_inventory.py: the classifier, the recommendation   *)
(* table, the two-source metric resolver, the per-profile collection loop, *)
(* the CSV writer and the summary printer.                                 *)
(*                                                                         *)
(* Percentages are Python floats in the program.  Here a percentage is an  *)
(* integer number of thousandths of a percent (37500 is 37.5%), and an     *)
(* Optional[float] is a sequence: <<>> is None, <<v>> is the value v.      *)
(***************************************************************************)
EXTENDS Integers, Sequences, FiniteSets, TLC

VARIABLES
    pc,           \* position of the run inside main / collect_for_profile
    aws,          \* what the AWS side of this run can answer (fixed during a run)
    args,         \* parsed command line: thresholds, top, cluster filter
    prof,         \* index in profiles of the profile main's loop is at
    cluster_arns, \* collect_for_profile: clusters still to iterate (after the filter)
    ci,           \* index of the current cluster in cluster_arns
    service_arns, \* services listed for the current cluster
    services,     \* service descriptors of the current cluster
    si,           \* index of the current service in services
    rows,         \* collect_for_profile's local result list
    all_rows,     \* main's result collection
    calls,        \* the ECS API calls made so far, with their outcome
    cw_calls,     \* CloudWatch lookups of the latest fetch_cpu_mem_pct call
    stderr,       \* diagnostic lines printed so far
    stdout,       \* progress lines printed so far
    csv,          \* lines written to the tabular output
    summary,      \* what print_summary printed (<<>> before it runs)
    exit_code,    \* status main returns (-1 while running)
    call,         \* argument record of a pure-function call under check
    ret           \* its result (<<>> before the call)

vars == <<pc, aws, args, prof, cluster_arns, ci, service_arns, services, si, rows, all_rows,
          calls, cw_calls, stderr, stdout, csv, summary, exit_code, call, ret>>

-----------------------------------------------------------------------------
(* Bounds *)

NProfiles == 2        \* length of the profile list
MaxClusters == 2      \* clusters list_clusters may return
MaxServices == 2      \* services list_services may return for one cluster
MaxRows == 2          \* services the accounts hold in total, listings of any length
MaxMetricRows == 2    \* services the accounts hold in total, metrics failing or empty
MaxFaults == 2        \* ECS calls (session, listing, description) that fail in one run
MaxRunning == 3       \* largest runningCount drawn
MaxGrid == 4          \* classify is tried on values and thresholds 0..MaxGrid
MaxDatapoints == 2    \* datapoints in one CloudWatch response
MaxReportRows == 2    \* rows of a collection handed to write_csv / print_summary
MaxTop == 2           \* largest --top drawn

-----------------------------------------------------------------------------
(* Optional values and small helpers *)

None == <<>>

Some(v) == <<v>>

IsNone(x) == x = <<>>

Val(x) == x[1]

Min(a, b) == IF a <= b THEN a ELSE b

Max(a, b) == IF a >= b THEN a ELSE b

RECURSIVE SumSeq(_)
SumSeq(s) == IF s = <<>> THEN 0 ELSE Head(s) + SumSeq(Tail(s))

\* Python slice s[:n], n of either sign
SliceTo(s, n) ==
    IF n >= 0 THEN SubSeq(s, 1, Min(n, Len(s)))
    ELSE SubSeq(s, 1, Max(Len(s) + n, 0))

-----------------------------------------------------------------------------
(* Default thresholds, in thousandths of a percent *)

DEFAULT_CPU_LOW_MAX == 40000

DEFAULT_CPU_MED_MAX == 69000

DEFAULT_MEM_LOW_MAX == 35000

DEFAULT_MEM_MED_MAX == 69000

-----------------------------------------------------------------------------
(* classify *)

Levels == {"low", "medium", "high", "no_data"}

classify_lowInclusive(value_pct, low_max, med_max) ==
    IF IsNone(value_pct) THEN "no_data"
    ELSE IF Val(value_pct) <= low_max THEN "low"
    ELSE IF Val(value_pct) <= med_max THEN "medium"
    ELSE "high"

classify(value_pct, low_max, med_max) ==
    IF IsNone(value_pct) THEN "no_data"
    ELSE IF Val(value_pct) < low_max THEN "low"
    ELSE IF Val(value_pct) <= med_max THEN "medium"
    ELSE "high"

-----------------------------------------------------------------------------
(* recommendation *)

MsgIdle == "Running=0. Service has no running tasks: review if it can be deactivated/removed or kept on-demand."

MsgHighCpu == "High CPU: possible bottleneck. Consider increasing CPU and/or enabling autoscaling (keep memory)."

MsgHighMem == "High memory (OOMKill risk). Consider increasing memory and investigate leak/cache/heap."

MsgOversized == "Low CPU and memory: over-provisioned. Consider downsizing CPU/memory and/or using FARGATE_SPOT."

MsgIdleCpu == "Idle CPU: consider reducing CPU while maintaining memory."

MsgIdleMem == "Idle memory: consider reducing memory (carefully) while maintaining CPU."

MsgIncomplete == "Incomplete metrics: validate Container Insights / ECS metrics in CloudWatch and re-evaluate."

MsgOk == "Looks OK: monitor peaks and adjust with historical data (7-14 days)."

recommendation_idleMemFirst(cpu_level, mem_level, running) ==
    IF running = 0 THEN MsgIdle
    ELSE IF cpu_level \in {"medium", "high"} /\ mem_level = "low" THEN MsgIdleMem
    ELSE IF cpu_level = "high" /\ mem_level \in {"low", "medium"} THEN MsgHighCpu
    ELSE IF mem_level = "high" THEN MsgHighMem
    ELSE IF cpu_level = "low" /\ mem_level = "low" THEN MsgOversized
    ELSE IF cpu_level = "low" /\ mem_level \in {"medium", "high"} THEN MsgIdleCpu
    ELSE IF cpu_level = "no_data" \/ mem_level = "no_data" THEN MsgIncomplete
    ELSE MsgOk

recommendation_incompleteNeedsBoth(cpu_level, mem_level, running) ==
    IF running = 0 THEN MsgIdle
    ELSE IF cpu_level = "high" /\ mem_level \in {"low", "medium"} THEN MsgHighCpu
    ELSE IF mem_level = "high" THEN MsgHighMem
    ELSE IF cpu_level = "low" /\ mem_level = "low" THEN MsgOversized
    ELSE IF cpu_level = "low" /\ mem_level \in {"medium", "high"} THEN MsgIdleCpu
    ELSE IF cpu_level \in {"medium", "high"} /\ mem_level = "low" THEN MsgIdleMem
    ELSE IF cpu_level = "no_data" /\ mem_level = "no_data" THEN MsgIncomplete
    ELSE MsgOk

recommendation(cpu_level, mem_level, running) ==
    IF running = 0 THEN MsgIdle
    ELSE IF cpu_level = "high" /\ mem_level \in {"low", "medium"} THEN MsgHighCpu
    ELSE IF mem_level = "high" THEN MsgHighMem
    ELSE IF cpu_level = "low" /\ mem_level = "low" THEN MsgOversized
    ELSE IF cpu_level = "low" /\ mem_level \in {"medium", "high"} THEN MsgIdleCpu
    ELSE IF cpu_level \in {"medium", "high"} /\ mem_level = "low" THEN MsgIdleMem
    ELSE IF cpu_level = "no_data" \/ mem_level = "no_data" THEN MsgIncomplete
    ELSE MsgOk

-----------------------------------------------------------------------------
(* CloudWatch metrics.                                                     *)
(* A response of get_metric_statistics is either a raised exception,       *)
(* [raises |-> kind], or [Datapoints |-> sequence of datapoints]; a        *)
(* datapoint is <<>> when it carries no "Average" key and <<v>> when its   *)
(* Average is v.  The result of a call that may raise is a record          *)
(* [raised |-> kind or "", value |-> ...].                                 *)

NsInsights == "ECS/ContainerInsights"

NsEcs == "AWS/ECS"

NoSource == "no_data"

Raise(kind) == [raises |-> kind]

Data(dps) == [Datapoints |-> dps]

IsRaise(resp) == "raises" \in DOMAIN resp

Returned(v) == [raised |-> "", value |-> v]

Raised(kind) == [raised |-> kind, value |-> None]

get_metric_avg_onlyClientError(resp) ==
    IF IsRaise(resp)
    THEN IF resp.raises = "ClientError" THEN Returned(None) ELSE Raised(resp.raises)
    ELSE LET dps == resp.Datapoints
             vals == SelectSeq(dps, LAMBDA dp : ~IsNone(dp))
         IN IF dps = <<>> THEN Returned(None)
            ELSE IF vals = <<>> THEN Returned(None)
            ELSE Returned(Some(SumSeq([i \in 1..Len(vals) |-> Val(vals[i])]) \div Len(vals)))

\* float(sum(vals) / len(vals)) is taken on the thousandths grid
get_metric_avg(resp) ==
    IF IsRaise(resp)
    THEN IF resp.raises \in {"ClientError", "BotoCoreError"}
         THEN Returned(None) ELSE Raised(resp.raises)
    ELSE LET dps == resp.Datapoints
             vals == SelectSeq(dps, LAMBDA dp : ~IsNone(dp))
         IN IF dps = <<>> THEN Returned(None)
            ELSE IF vals = <<>> THEN Returned(None)
            ELSE Returned(Some(SumSeq([i \in 1..Len(vals) |-> Val(vals[i])]) \div Len(vals)))

MetricKeys ==
    {<<NsInsights, "CpuUtilization">>, <<NsInsights, "MemoryUtilization">>,
     <<NsEcs, "CPUUtilization">>, <<NsEcs, "MemoryUtilization">>}

\* one lookup as fetch_cpu_mem_pct records it: what was asked, how it ended
Lookup(cw, ns, metric) ==
    [namespace |-> ns, metric |-> metric,
     failed |-> IsRaise(cw[<<ns, metric>>]),
     result |-> get_metric_avg(cw[<<ns, metric>>])]

FetchResult(cpu, mem, source, lookups, raised) ==
    [cpu |-> cpu, mem |-> mem, source |-> source, lookups |-> lookups, raised |-> raised]

fetch_cpu_mem_pct_mixed(cw) ==
    LET c1 == Lookup(cw, NsInsights, "CpuUtilization")
        m1 == Lookup(cw, NsInsights, "MemoryUtilization")
        c2 == Lookup(cw, NsEcs, "CPUUtilization")
        m2 == Lookup(cw, NsEcs, "MemoryUtilization")
    IN IF c1.result.raised # "" THEN FetchResult(None, None, NoSource, <<c1>>, c1.result.raised)
       ELSE IF m1.result.raised # "" THEN FetchResult(None, None, NoSource, <<c1, m1>>, m1.result.raised)
       ELSE IF ~IsNone(c1.result.value) /\ ~IsNone(m1.result.value)
            THEN FetchResult(c1.result.value, m1.result.value, NsInsights, <<c1, m1>>, "")
       ELSE IF c2.result.raised # "" THEN FetchResult(None, None, NoSource, <<c1, m1, c2>>, c2.result.raised)
       ELSE IF m2.result.raised # "" THEN FetchResult(None, None, NoSource, <<c1, m1, c2, m2>>, m2.result.raised)
       ELSE LET cpu == IF IsNone(c1.result.value) THEN c2.result.value ELSE c1.result.value
                mem == IF IsNone(m1.result.value) THEN m2.result.value ELSE m1.result.value
            IN IF ~IsNone(cpu) \/ ~IsNone(mem)
               THEN FetchResult(cpu, mem, NsEcs, <<c1, m1, c2, m2>>, "")
               ELSE FetchResult(None, None, NoSource, <<c1, m1, c2, m2>>, "")

\* cw maps each (namespace, metric) to the response CloudWatch would give;
\* lookups lists the requests actually made, in order
fetch_cpu_mem_pct(cw) ==
    LET c1 == Lookup(cw, NsInsights, "CpuUtilization")
        m1 == Lookup(cw, NsInsights, "MemoryUtilization")
        c2 == Lookup(cw, NsEcs, "CPUUtilization")
        m2 == Lookup(cw, NsEcs, "MemoryUtilization")
    IN IF c1.result.raised # "" THEN FetchResult(None, None, NoSource, <<c1>>, c1.result.raised)
       ELSE IF m1.result.raised # "" THEN FetchResult(None, None, NoSource, <<c1, m1>>, m1.result.raised)
       ELSE IF ~IsNone(c1.result.value) \/ ~IsNone(m1.result.value)
            THEN FetchResult(c1.result.value, m1.result.value, NsInsights, <<c1, m1>>, "")
       ELSE IF c2.result.raised # "" THEN FetchResult(None, None, NoSource, <<c1, m1, c2>>, c2.result.raised)
       ELSE IF m2.result.raised # "" THEN FetchResult(None, None, NoSource, <<c1, m1, c2, m2>>, m2.result.raised)
       ELSE IF ~IsNone(c2.result.value) \/ ~IsNone(m2.result.value)
            THEN FetchResult(c2.result.value, m2.result.value, NsEcs, <<c1, m1, c2, m2>>, "")
       ELSE FetchResult(None, None, NoSource, <<c1, m1, c2, m2>>, "")

-----------------------------------------------------------------------------
(* Rows.  A ServiceRow keeps the fields the classification, the report and *)
(* the summary read; the task-definition sizing fields and the desired and *)
(* pending counts are copied through by the program and are left out.      *)

Row_memByCpuThresholds(a, account_id, cluster, svc, f) ==
    LET cpu_level == classify(f.cpu, a.cpu_low_max, a.cpu_med_max)
        mem_level == classify(f.mem, a.cpu_low_max, a.cpu_med_max)
    IN [account_id |-> account_id, cluster |-> cluster, service |-> svc.serviceName,
        running |-> svc.runningCount, cpu_pct |-> f.cpu, mem_pct |-> f.mem,
        cpu_level |-> cpu_level, mem_level |-> mem_level,
        action |-> recommendation(cpu_level, mem_level, svc.runningCount),
        metrics_source |-> f.source]

\* body of the service loop after fetch_cpu_mem_pct returned f
Row(a, account_id, cluster, svc, f) ==
    LET cpu_level == classify(f.cpu, a.cpu_low_max, a.cpu_med_max)
        mem_level == classify(f.mem, a.mem_low_max, a.mem_med_max)
    IN [account_id |-> account_id, cluster |-> cluster, service |-> svc.serviceName,
        running |-> svc.runningCount, cpu_pct |-> f.cpu, mem_pct |-> f.mem,
        cpu_level |-> cpu_level, mem_level |-> mem_level,
        action |-> recommendation(cpu_level, mem_level, svc.runningCount),
        metrics_source |-> f.source]

-----------------------------------------------------------------------------
(* Command line *)

DEFAULT_TOP == 10

Args(cpu_low, cpu_med, mem_low, mem_med, top, clusters) ==
    [cpu_low_max |-> cpu_low, cpu_med_max |-> cpu_med,
     mem_low_max |-> mem_low, mem_med_max |-> mem_med,
     top |-> top, clusters |-> clusters]

DefaultArgs ==
    Args(DEFAULT_CPU_LOW_MAX, DEFAULT_CPU_MED_MAX,
         DEFAULT_MEM_LOW_MAX, DEFAULT_MEM_MED_MAX, DEFAULT_TOP, {})

\* --clusters naming the second cluster
FilterArgs ==
    Args(DEFAULT_CPU_LOW_MAX, DEFAULT_CPU_MED_MAX,
         DEFAULT_MEM_LOW_MAX, DEFAULT_MEM_MED_MAX, DEFAULT_TOP, {2})

\* the four thresholds overridden: 37.5% is high for CPU and low for memory
ThresholdArgs == Args(30000, 35000, 38000, 69000, DEFAULT_TOP, {})

-----------------------------------------------------------------------------
(* The run: main's loop over the profiles and collect_for_profile.         *)
(* Profiles are named 1..NProfiles in the order of the profile list,       *)
(* clusters and services by their position in the listing.                 *)

\* The AWS side of a run: how many ECS calls (session, listing, description)
\* may fail, the responses CloudWatch may give to a metric request, the
\* runningCount values the services may have, how many clusters a profile
\* may list, how many services a cluster may list, and how many services
\* the accounts hold in total.
Aws(faults, responses, running, clusters, per_cluster, size) ==
    [ecs_faults |-> faults, cw |-> responses, running |-> running,
     clusters |-> clusters, services |-> per_cluster, size |-> size]

\* ECS calls fail; every profile has MaxClusters clusters of one service
\* with healthy metrics
FaultyEcs ==
    Aws(MaxFaults, {Data(<<Some(37500)>>)}, {MaxRunning},
        {MaxClusters}, {1}, NProfiles * MaxClusters)

\* ECS calls succeed and metric lookups fail or have data; every profile
\* has one cluster of one service
FaultyMetrics ==
    Aws(0, {Raise("BotoCoreError"), Data(<<Some(37500)>>)}, {MaxRunning},
        {1}, {1}, MaxMetricRows)

\* nothing fails; metrics are empty or have data, services run tasks or none
QuietServices ==
    Aws(0, {Data(<<>>), Data(<<Some(37500)>>)}, {0, MaxRunning},
        {1}, {1}, MaxMetricRows)

\* nothing fails; profiles list any number of clusters and clusters any
\* number of services
AnyAccounts ==
    Aws(0, {Data(<<Some(37500)>>)}, {MaxRunning},
        0..MaxClusters, 0..MaxServices, MaxRows)

\* the runs tried: an environment and a command line
RunInputs ==
    {<<FaultyEcs, DefaultArgs>>,
     <<FaultyEcs, FilterArgs>>,
     <<FaultyMetrics, DefaultArgs>>,
     <<QuietServices, DefaultArgs>>,
     <<QuietServices, ThresholdArgs>>,
     <<AnyAccounts, DefaultArgs>>,
     <<AnyAccounts, FilterArgs>>}

\* an ECS call may still fail: the failures so far are the lines of stderr
MayFail == Len(stderr) < aws.ecs_faults

EcsCall(op, p, c, ok, n) == [op |-> op, prof |-> p, cluster |-> c, ok |-> ok, n |-> n]

Diag(what, p, c) == [what |-> what, prof |-> p, cluster |-> c]

Out(line, p) == [line |-> line, prof |-> p]

\* where the cluster loop goes when it moves on to index i
ClusterLoopPc(arns, i) == IF i > Len(arns) THEN "return_rows" ELSE "list_services"

Init ==
    /\ pc = "main_loop"
    /\ \E input \in RunInputs : aws = input[1] /\ args = input[2]
    /\ prof = 1
    /\ cluster_arns = <<>>
    /\ ci = 0
    /\ service_arns = <<>>
    /\ services = <<>>
    /\ si = 0
    /\ rows = <<>>
    /\ all_rows = <<>>
    /\ calls = <<>>
    /\ cw_calls = <<>>
    /\ stderr = <<>>
    /\ stdout = <<>>
    /\ csv = <<>>
    /\ summary = <<>>
    /\ exit_code = -1
    /\ call = <<>>
    /\ ret = <<>>

\* main: for prof in profiles: print, call collect_for_profile (rows = [])
StartProfile ==
    /\ pc = "main_loop"
    /\ prof <= NProfiles
    /\ stdout' = Append(stdout, Out("collecting", prof))
    /\ rows' = <<>>
    /\ cluster_arns' = <<>>
    /\ ci' = 0
    /\ service_arns' = <<>>
    /\ services' = <<>>
    /\ si' = 0
    /\ cw_calls' = <<>>
    /\ pc' = "session"
    /\ UNCHANGED <<aws, args, prof, all_rows, calls, stderr, csv, summary, exit_code, call, ret>>

\* collect_for_profile: boto3.Session and the two clients, in one try
CreateSession ==
    /\ pc = "session"
    /\ \E ok \in BOOLEAN :
        /\ ~ok => MayFail
        /\ calls' = Append(calls, EcsCall("session", prof, 0, ok, 0))
        /\ IF ok
           THEN /\ pc' = "list_clusters"
                /\ UNCHANGED stderr
           ELSE /\ stderr' = Append(stderr, Diag("session", prof, 0))
                /\ pc' = "return_rows"
    /\ cw_calls' = <<>>
    /\ UNCHANGED <<aws, args, prof, cluster_arns, ci, service_arns, services, si, rows,
                   all_rows, stdout, csv, summary, exit_code, call, ret>>

\* list_all_clusters in its try, then the --clusters filter
ListClusters ==
    /\ pc = "list_clusters"
    /\ \E ok \in BOOLEAN, cnt \in aws.clusters :
      LET n == IF ok THEN cnt ELSE 0 IN
        /\ ~ok => MayFail
        /\ calls' = Append(calls, EcsCall("list_clusters", prof, 0, ok, n))
        /\ IF ok
           THEN LET listed == [i \in 1..n |-> i]
                    kept == IF args.clusters # {}
                            THEN SelectSeq(listed, LAMBDA c : c \in args.clusters)
                            ELSE listed
                IN /\ cluster_arns' = kept
                   /\ ci' = 1
                   /\ pc' = ClusterLoopPc(kept, 1)
                   /\ UNCHANGED stderr
           ELSE /\ stderr' = Append(stderr, Diag("list_clusters", prof, 0))
                /\ pc' = "return_rows"
                /\ UNCHANGED <<cluster_arns, ci>>
    /\ cw_calls' = <<>>
    /\ UNCHANGED <<aws, args, prof, service_arns, services, si, rows,
                   all_rows, stdout, csv, summary, exit_code, call, ret>>

ListServices_returnOnFailure ==
    /\ pc = "list_services"
    /\ \E ok \in BOOLEAN, cnt \in aws.services :
      LET n == IF ok THEN Min(cnt, aws.size - Len(all_rows) - Len(rows)) ELSE 0 IN
        /\ ~ok => MayFail
        /\ calls' = Append(calls, EcsCall("list_services", prof, cluster_arns[ci], ok, n))
        /\ IF ok /\ n > 0
           THEN /\ service_arns' = [i \in 1..n |-> i]
                /\ pc' = "describe_services"
                /\ UNCHANGED <<ci, stderr>>
           ELSE /\ stderr' = IF ok THEN stderr
                             ELSE Append(stderr, Diag("list_services", prof, cluster_arns[ci]))
                /\ service_arns' = <<>>
                /\ ci' = ci + 1
                /\ pc' = IF ok THEN ClusterLoopPc(cluster_arns, ci + 1) ELSE "return_rows"
    /\ cw_calls' = <<>>
    /\ UNCHANGED <<aws, args, prof, cluster_arns, services, si, rows,
                   all_rows, stdout, csv, summary, exit_code, call, ret>>

\* top of the cluster loop: list_services_in_cluster in its try, and the
\* skip of a cluster without services
ListServices ==
    /\ pc = "list_services"
    /\ \E ok \in BOOLEAN, cnt \in aws.services :
      LET n == IF ok THEN Min(cnt, aws.size - Len(all_rows) - Len(rows)) ELSE 0 IN
        /\ ~ok => MayFail
        /\ calls' = Append(calls, EcsCall("list_services", prof, cluster_arns[ci], ok, n))
        /\ IF ok /\ n > 0
           THEN /\ service_arns' = [i \in 1..n |-> i]
                /\ pc' = "describe_services"
                /\ UNCHANGED <<ci, stderr>>
           ELSE /\ stderr' = IF ok THEN stderr
                             ELSE Append(stderr, Diag("list_services", prof, cluster_arns[ci]))
                /\ service_arns' = <<>>
                /\ ci' = ci + 1
                /\ pc' = ClusterLoopPc(cluster_arns, ci + 1)
    /\ cw_calls' = <<>>
    /\ UNCHANGED <<aws, args, prof, cluster_arns, services, si, rows,
                   all_rows, stdout, csv, summary, exit_code, call, ret>>

\* describe_services in its try; a descriptor carries the service's name
\* and its runningCount
DescribeServices ==
    /\ pc = "describe_services"
    /\ \E ok \in BOOLEAN, running \in [1..Len(service_arns) -> aws.running] :
        /\ ~ok => (MayFail /\ \A i \in DOMAIN running : running[i] = MaxRunning)
        /\ calls' = Append(calls, EcsCall("describe_services", prof, cluster_arns[ci],
                                          ok, Len(service_arns)))
        /\ IF ok
           THEN /\ services' = [i \in 1..Len(service_arns) |->
                                  [serviceName |-> service_arns[i], runningCount |-> running[i]]]
                /\ si' = 1
                /\ pc' = "service"
                /\ UNCHANGED <<ci, stderr>>
           ELSE /\ stderr' = Append(stderr, Diag("describe_services", prof, cluster_arns[ci]))
                /\ ci' = ci + 1
                /\ pc' = ClusterLoopPc(cluster_arns, ci + 1)
                /\ UNCHANGED <<services, si>>
    /\ cw_calls' = <<>>
    /\ UNCHANGED <<aws, args, prof, cluster_arns, service_arns, rows,
                   all_rows, stdout, csv, summary, exit_code, call, ret>>

\* one iteration of the service loop: the metric lookups, the two
\* classifications, the recommendation, the row and its append.  An
\* exception leaving fetch_cpu_mem_pct is caught nowhere: it ends the run.
ProcessService ==
    /\ pc = "service"
    /\ \E cw \in [MetricKeys -> aws.cw] :
        LET f == fetch_cpu_mem_pct(cw)
        IN /\ cw_calls' = f.lookups
           /\ IF f.raised # ""
              THEN /\ stderr' = Append(stderr, Diag("traceback", prof, cluster_arns[ci]))
                   /\ exit_code' = 1
                   /\ pc' = "done"
                   /\ UNCHANGED <<rows, si, ci>>
              ELSE /\ rows' = Append(rows, Row(args, prof, cluster_arns[ci], services[si], f))
                   /\ si' = si + 1
                   /\ IF si + 1 > Len(services)
                      THEN /\ ci' = ci + 1
                           /\ pc' = ClusterLoopPc(cluster_arns, ci + 1)
                      ELSE /\ pc' = "service"
                           /\ UNCHANGED ci
                   /\ UNCHANGED <<stderr, exit_code>>
    /\ UNCHANGED <<aws, args, prof, cluster_arns, service_arns, services,
                   all_rows, calls, stdout, csv, summary, call, ret>>

ReturnRows_prepend ==
    /\ pc = "return_rows"
    /\ all_rows' = rows \o all_rows
    /\ prof' = prof + 1
    /\ pc' = IF prof + 1 > NProfiles THEN "check" ELSE "main_loop"
    /\ rows' = <<>>
    /\ cluster_arns' = <<>>
    /\ ci' = 0
    /\ service_arns' = <<>>
    /\ services' = <<>>
    /\ si' = 0
    /\ cw_calls' = <<>>
    /\ UNCHANGED <<aws, args, calls, stderr, stdout, csv, summary, exit_code, call, ret>>

\* collect_for_profile returns rows and its locals are gone; main extends
\* all_rows and moves on
ReturnRows ==
    /\ pc = "return_rows"
    /\ all_rows' = all_rows \o rows
    /\ prof' = prof + 1
    /\ pc' = IF prof + 1 > NProfiles THEN "check" ELSE "main_loop"
    /\ rows' = <<>>
    /\ cluster_arns' = <<>>
    /\ ci' = 0
    /\ service_arns' = <<>>
    /\ services' = <<>>
    /\ si' = 0
    /\ cw_calls' = <<>>
    /\ UNCHANGED <<aws, args, calls, stderr, stdout, csv, summary, exit_code, call, ret>>

-----------------------------------------------------------------------------
(* Output: write_csv.                                                      *)
(* The text of a percentage cell is "" (here <<>>) for None and the value  *)
(* with two decimals otherwise (here <<h>>, h the number of hundredths).   *)

\* f"{x:.2f}" of a value on the thousandths grid: round to the nearest
\* hundredth, an exact tie to the even one
Fmt2(x) ==
    IF IsNone(x) THEN <<>>
    ELSE LET h == Val(x) \div 10
             r == Val(x) % 10
         IN IF r < 5 THEN <<h>>
            ELSE IF r > 5 THEN <<h + 1>>
            ELSE IF h % 2 = 0 THEN <<h>> ELSE <<h + 1>>

CsvHeader == [account_id |-> "account_id", cluster |-> "cluster", service |-> "service",
              running |-> "running", cpu_pct |-> "cpu_pct", cpu_level |-> "cpu_level",
              mem_pct |-> "mem_pct", mem_level |-> "mem_level",
              recommendation |-> "recommendation", metrics_source |-> "metrics_source"]

CsvLine_swapPct(r) ==
    [account_id |-> r.account_id, cluster |-> r.cluster, service |-> r.service,
     running |-> r.running,
     cpu_pct |-> Fmt2(r.mem_pct), cpu_level |-> r.cpu_level,
     mem_pct |-> Fmt2(r.cpu_pct), mem_level |-> r.mem_level,
     recommendation |-> r.action, metrics_source |-> r.metrics_source]

\* the dictionary w.writerow receives for row r
CsvLine(r) ==
    [account_id |-> r.account_id, cluster |-> r.cluster, service |-> r.service,
     running |-> r.running,
     cpu_pct |-> Fmt2(r.cpu_pct), cpu_level |-> r.cpu_level,
     mem_pct |-> Fmt2(r.mem_pct), mem_level |-> r.mem_level,
     recommendation |-> r.action, metrics_source |-> r.metrics_source]

\* the lines of the output: the header, then one line per row, in order
write_csv(rs) == <<CsvHeader>> \o [i \in 1..Len(rs) |-> CsvLine(rs[i])]

-----------------------------------------------------------------------------
(* Output: print_summary *)

\* the sort keys of print_summary; None sorts as -1.0
k_cpu(r) == IF IsNone(r.cpu_pct) THEN -1000 ELSE Val(r.cpu_pct)

k_mem(r) == IF IsNone(r.mem_pct) THEN -1000 ELSE Val(r.mem_pct)

SortedDesc_ascending(s, keys) ==
    LET before(i) == {j \in 1..Len(s) :
                         keys[j] < keys[i] \/ (keys[j] = keys[i] /\ j < i)}
    IN [p \in 1..Len(s) |-> s[CHOOSE i \in 1..Len(s) : Cardinality(before(i)) = p - 1]]

\* sorted(s, key=..., reverse=True), keys[i] being the key of s[i]:
\* descending, rows of equal key keep their order
SortedDesc(s, keys) ==
    LET before(i) == {j \in 1..Len(s) :
                         keys[j] > keys[i] \/ (keys[j] = keys[i] /\ j < i)}
    IN [p \in 1..Len(s) |-> s[CHOOSE i \in 1..Len(s) : Cardinality(before(i)) = p - 1]]

\* the keys of the rows of s under k_cpu and under k_mem
CpuKeys(s) == [i \in 1..Len(s) |-> k_cpu(s[i])]

MemKeys(s) == [i \in 1..Len(s) |-> k_mem(s[i])]

IsBottleneck(r) == r.running > 0 /\ (r.cpu_level = "high" \/ r.mem_level = "high")

IsOversized(r) == r.running > 0 /\ r.cpu_level = "low" /\ r.mem_level = "low"

IsStopped(r) == r.running = 0

\* what print_summary prints: the four counts and the four lists of rows
print_summary(rs, top) ==
    LET bottlenecks == SelectSeq(rs, IsBottleneck)
        oversized == SelectSeq(rs, IsOversized)
        stopped == SelectSeq(rs, IsStopped)
    IN [total |-> Len(rs),
        n_bottlenecks |-> Len(bottlenecks),
        n_oversized |-> Len(oversized),
        n_stopped |-> Len(stopped),
        top_cpu |-> SliceTo(SortedDesc(bottlenecks, CpuKeys(bottlenecks)), top),
        top_mem |-> SliceTo(SortedDesc(bottlenecks, MemKeys(bottlenecks)), top),
        top_oversized |-> SliceTo(oversized, top),
        top_stopped |-> SliceTo(stopped, top)]

-----------------------------------------------------------------------------
(* The end of main *)

CheckEmpty_exitZero ==
    /\ pc = "check"
    /\ IF all_rows = <<>>
       THEN /\ stderr' = Append(stderr, Diag("no_services", 0, 0))
            /\ exit_code' = 0
            /\ pc' = "done"
       ELSE /\ pc' = "write_csv"
            /\ UNCHANGED <<stderr, exit_code>>
    /\ UNCHANGED <<aws, args, prof, cluster_arns, ci, service_arns, services, si, rows,
                   all_rows, calls, cw_calls, stdout, csv, summary, call, ret>>

\* if not all_rows: message on stderr, return 2
CheckEmpty ==
    /\ pc = "check"
    /\ IF all_rows = <<>>
       THEN /\ stderr' = Append(stderr, Diag("no_services", 0, 0))
            /\ exit_code' = 2
            /\ pc' = "done"
       ELSE /\ pc' = "write_csv"
            /\ UNCHANGED <<stderr, exit_code>>
    /\ UNCHANGED <<aws, args, prof, cluster_arns, ci, service_arns, services, si, rows,
                   all_rows, calls, cw_calls, stdout, csv, summary, call, ret>>

\* write_csv(all_rows, args.output) and the line that reports it
WriteCsv ==
    /\ pc = "write_csv"
    /\ csv' = write_csv(all_rows)
    /\ stdout' = Append(stdout, Out("csv_generated", 0))
    /\ pc' = "summary"
    /\ UNCHANGED <<aws, args, prof, cluster_arns, ci, service_arns, services, si, rows,
                   all_rows, calls, cw_calls, stderr, summary, exit_code, call, ret>>

\* print_summary(all_rows, top=args.top); return 0
PrintSummary ==
    /\ pc = "summary"
    /\ summary' = <<print_summary(all_rows, args.top)>>
    /\ exit_code' = 0
    /\ pc' = "done"
    /\ UNCHANGED <<aws, args, prof, cluster_arns, ci, service_arns, services, si, rows,
                   all_rows, calls, cw_calls, stderr, stdout, csv, call, ret>>

Next ==
    \/ StartProfile
    \/ CreateSession
    \/ ListClusters
    \/ ListServices
    \/ DescribeServices
    \/ ProcessService
    \/ ReturnRows
    \/ CheckEmpty
    \/ WriteCsv
    \/ PrintSummary

Spec == Init /\ [][Next]_vars

-----------------------------------------------------------------------------
(* The pure functions on their own: a call draws its arguments in the      *)
(* initial state and one step applies the function.                        *)

\* the variables of the run, at rest while a function is called on its own
NoRun ==
    /\ aws = Aws(0, {}, {}, {}, {}, 0)
    /\ args = DefaultArgs
    /\ prof = 1
    /\ cluster_arns = <<>>
    /\ ci = 0
    /\ service_arns = <<>>
    /\ services = <<>>
    /\ si = 0
    /\ rows = <<>>
    /\ all_rows = <<>>
    /\ calls = <<>>
    /\ cw_calls = <<>>
    /\ stderr = <<>>
    /\ stdout = <<>>
    /\ csv = <<>>
    /\ summary = <<>>
    /\ exit_code = -1

RunVars == <<aws, args, prof, cluster_arns, ci, service_arns, services, si, rows,
             all_rows, calls, cw_calls, stderr, stdout, csv, summary, exit_code>>

OptGrid == {None} \cup {Some(v) : v \in 0..MaxGrid}

InitClassify ==
    /\ NoRun
    /\ pc = "call"
    /\ call \in [value_pct : OptGrid, low_max : 0..MaxGrid, med_max : 0..MaxGrid]
    /\ ret = <<>>

CallClassify ==
    /\ pc = "call"
    /\ ret' = <<classify(call.value_pct, call.low_max, call.med_max)>>
    /\ pc' = "returned"
    /\ UNCHANGED <<RunVars, call>>

SpecClassify == InitClassify /\ [][CallClassify]_vars

InitRecommendation ==
    /\ NoRun
    /\ pc = "call"
    /\ call \in [cpu_level : Levels, mem_level : Levels, running : 0..MaxRunning]
    /\ ret = <<>>

CallRecommendation ==
    /\ pc = "call"
    /\ ret' = <<recommendation(call.cpu_level, call.mem_level, call.running)>>
    /\ pc' = "returned"
    /\ UNCHANGED <<RunVars, call>>

SpecRecommendation == InitRecommendation /\ [][CallRecommendation]_vars

\* datapoints of a response: without Average, or with one of two averages
Datapoints == {None, Some(20000), Some(60001)}

RECURSIVE SeqsUpTo(_, _)
\* the sequences over S of length at most n
SeqsUpTo(S, n) ==
    IF n = 0 THEN {<<>>}
    ELSE LET shorter == SeqsUpTo(S, n - 1)
         IN shorter \cup {Append(q, x) : q \in shorter, x \in S}

FetchResponses ==
    {Raise("ClientError"), Raise("BotoCoreError")}
    \cup {Data(dps) : dps \in SeqsUpTo(Datapoints, MaxDatapoints)}

\* the first source answers anything; the second answers with a failure,
\* nothing, or one datapoint
InitFetch ==
    /\ NoRun
    /\ pc = "call"
    /\ \E a \in [{<<NsInsights, "CpuUtilization">>, <<NsInsights, "MemoryUtilization">>} -> FetchResponses],
          b \in [{<<NsEcs, "CPUUtilization">>, <<NsEcs, "MemoryUtilization">>} ->
                    {Raise("ClientError"), Data(<<>>), Data(<<Some(60001)>>)}] :
          call = [cw |-> [k \in MetricKeys |-> IF k \in DOMAIN a THEN a[k] ELSE b[k]]]
    /\ ret = <<>>

CallFetch ==
    /\ pc = "call"
    /\ ret' = <<fetch_cpu_mem_pct(call.cw)>>
    /\ pc' = "returned"
    /\ UNCHANGED <<RunVars, call>>

SpecFetch == InitFetch /\ [][CallFetch]_vars

\* Collections handed to write_csv and print_summary: rows as the service
\* loop builds them under the default thresholds, the i-th row being that of
\* service i.  39996 and 34996 are 39.996% and 34.996%, just under the
\* default low thresholds.
ReportFacts ==
    [running : {0, MaxRunning},
     cpu : {None, Some(10000), Some(39996), Some(75000)},
     mem : {None, Some(10000), Some(34996), Some(75000)}]

ReportRow(i, fact) ==
    Row(DefaultArgs, 1, 1, [serviceName |-> i, runningCount |-> fact.running],
        [cpu |-> fact.cpu, mem |-> fact.mem,
         source |-> IF IsNone(fact.cpu) /\ IsNone(fact.mem) THEN NoSource ELSE NsInsights])

ReportCollections(len) ==
    UNION {{[i \in 1..n |-> ReportRow(i, facts[i])] : facts \in [1..n -> ReportFacts]} :
           n \in 0..len}

InitWriteCsv ==
    /\ NoRun
    /\ pc = "call"
    /\ call \in [rows : ReportCollections(MaxReportRows)]
    /\ ret = <<>>

CallWriteCsv ==
    /\ pc = "call"
    /\ ret' = <<write_csv(call.rows)>>
    /\ pc' = "returned"
    /\ UNCHANGED <<RunVars, call>>

SpecWriteCsv == InitWriteCsv /\ [][CallWriteCsv]_vars

InitPrintSummary ==
    /\ NoRun
    /\ pc = "call"
    /\ call \in [rows : ReportCollections(MaxReportRows), top : (-1)..MaxTop]
    /\ ret = <<>>

CallPrintSummary ==
    /\ pc = "call"
    /\ ret' = <<print_summary(call.rows, call.top)>>
    /\ pc' = "returned"
    /\ UNCHANGED <<RunVars, call>>

SpecPrintSummary == InitPrintSummary /\ [][CallPrintSummary]_vars

-----------------------------------------------------------------------------
(* Properties *)

\* C1: recommendation returns the message of the first rule of the ordered
\* table (1 idle, 2 CPU bottleneck, 3 memory pressure, 4 over-provisioned,
\* 5 CPU idle, 6 memory idle, 7 incomplete metrics, 8 balanced) whose
\* predicate holds; running = 0 gives the idle message whatever the levels,
\* and (high, low) with running > 0 gives the CPU-bottleneck message, not
\* the idle-memory one.
C1_FirstMatchingRule ==
    pc = "returned" =>
        LET c == call.cpu_level
            m == call.mem_level
            r == call.running
            rule == <<r = 0,
                      c = "high" /\ m \in {"low", "medium"},
                      m = "high",
                      c = "low" /\ m = "low",
                      c = "low" /\ m \in {"medium", "high"},
                      c \in {"medium", "high"} /\ m = "low",
                      c = "no_data" \/ m = "no_data",
                      TRUE>>
            message == <<MsgIdle, MsgHighCpu, MsgHighMem, MsgOversized,
                         MsgIdleCpu, MsgIdleMem, MsgIncomplete, MsgOk>>
            first == CHOOSE i \in 1..8 : rule[i] /\ \A j \in 1..(i - 1) : ~rule[j]
        IN /\ ret = <<message[first]>>
           /\ r = 0 => ret = <<MsgIdle>>
           /\ (r > 0 /\ c = "high" /\ m = "low") => (ret = <<MsgHighCpu>> /\ ret # <<MsgIdleMem>>)

C1_Witness ==
    /\ pc = "returned"
    /\ call = [cpu_level |-> "high", mem_level |-> "low", running |-> MaxRunning]
    /\ ret = <<MsgHighCpu>>

\* C2: with low_max <= med_max, classify returns no_data exactly for an
\* absent value, low exactly below low_max, medium exactly from low_max to
\* med_max (both included), high exactly above med_max; a present value
\* never gives no_data.
C2_ClassifyBuckets ==
    (pc = "returned" /\ call.low_max <= call.med_max) =>
        LET v == call.value_pct
            level == ret[1]
        IN /\ level \in Levels
           /\ (level = "no_data") <=> IsNone(v)
           /\ ~IsNone(v) =>
                /\ (level = "low") <=> (Val(v) < call.low_max)
                /\ (level = "medium") <=> (call.low_max <= Val(v) /\ Val(v) <= call.med_max)
                /\ (level = "high") <=> (Val(v) > call.med_max)

C2_Witness ==
    /\ pc = "returned"
    /\ call.low_max < call.med_max
    /\ call.value_pct = Some(call.low_max)
    /\ ret = <<"medium">>

\* C3: fetch_cpu_mem_pct returns the first source's pair and label when the
\* first source yields at least one value, asks the second source only when
\* the first yields none and then returns the second's pair and label under
\* the same rule; the pair never mixes the sources; the label is no_data
\* exactly when both returned values are absent.
C3_FirstSourceWithAnyValueWins ==
    pc = "returned" =>
        LET r == ret[1]
            a_cpu == get_metric_avg(call.cw[<<NsInsights, "CpuUtilization">>]).value
            a_mem == get_metric_avg(call.cw[<<NsInsights, "MemoryUtilization">>]).value
            b_cpu == get_metric_avg(call.cw[<<NsEcs, "CPUUtilization">>]).value
            b_mem == get_metric_avg(call.cw[<<NsEcs, "MemoryUtilization">>]).value
            a_any == ~IsNone(a_cpu) \/ ~IsNone(a_mem)
            b_any == ~IsNone(b_cpu) \/ ~IsNone(b_mem)
            asked == {<<r.lookups[i].namespace, r.lookups[i].metric>> : i \in 1..Len(r.lookups)}
        IN /\ r.raised = ""
           /\ a_any => /\ <<r.cpu, r.mem, r.source>> = <<a_cpu, a_mem, NsInsights>>
                       /\ \A k \in asked : k[1] = NsInsights
           /\ ~a_any => /\ asked = MetricKeys
                        /\ b_any => <<r.cpu, r.mem, r.source>> = <<b_cpu, b_mem, NsEcs>>
                        /\ ~b_any => <<r.cpu, r.mem, r.source>> = <<None, None, NoSource>>
           /\ <<r.cpu, r.mem>> \in {<<a_cpu, a_mem>>, <<b_cpu, b_mem>>, <<None, None>>}
           /\ (r.source = NoSource) <=> (IsNone(r.cpu) /\ IsNone(r.mem))

C3_Witness ==
    /\ pc = "returned"
    /\ ret[1].source = NsInsights
    /\ IsNone(ret[1].cpu)
    /\ ret[1].mem = Some(40000)
    /\ call.cw[<<NsInsights, "MemoryUtilization">>] = Data(<<Some(20000), Some(60001)>>)
    /\ call.cw[<<NsEcs, "CPUUtilization">>] = Data(<<Some(60001)>>)

\* a percentage a ranks at least as high as b, an absent one ranking lowest
C8_AtLeast(a, b) == IsNone(b) \/ (~IsNone(a) /\ Val(a) >= Val(b))

\* the positions in rs of the rows of a summary group
C8_Bottlenecked(rs) ==
    {i \in 1..Len(rs) :
        rs[i].running > 0 /\ (rs[i].cpu_level = "high" \/ rs[i].mem_level = "high")}

C8_OverProvisioned(rs) ==
    {i \in 1..Len(rs) :
        rs[i].running > 0 /\ rs[i].cpu_level = "low" /\ rs[i].mem_level = "low"}

C8_Idle(rs) == {i \in 1..Len(rs) : rs[i].running = 0}

\* printed holds distinct rows of the group G of rs, in descending order of
\* the percentage field, and no row of G left out ranks above a printed one
C8_HighestDescending(printed, rs, G, field) ==
    /\ \A p \in 1..Len(printed) : \E i \in G : rs[i] = printed[p]
    /\ \A p, q \in 1..Len(printed) : p < q =>
          /\ printed[p] # printed[q]
          /\ C8_AtLeast(printed[p][field], printed[q][field])
    /\ \A i \in G : (\A p \in 1..Len(printed) : printed[p] # rs[i]) =>
          \A p \in 1..Len(printed) : C8_AtLeast(printed[p][field], rs[i][field])

\* printed is the first rows of the group G of rs, in the order of rs
C8_FirstInOrder(printed, rs, G) ==
    \A p \in 1..Len(printed) :
        \E i \in G : /\ Cardinality({j \in G : j < i}) = p - 1
                     /\ printed[p] = rs[i]

\* C8 as stated: each group's printed rows are at most top-N, the group's
\* highest by the relevant percentage, in descending order, absent below
\* present.  (Read for top-N >= 0, and with CPU% or memory% allowed as the
\* relevant percentage of the over-provisioned and idle groups.)
C8_Original ==
    (pc = "returned" /\ call.top >= 0) =>
        LET rs == call.rows
            out == ret[1]
        IN /\ Len(out.top_cpu) <= call.top
           /\ Len(out.top_mem) <= call.top
           /\ Len(out.top_oversized) <= call.top
           /\ Len(out.top_stopped) <= call.top
           /\ C8_HighestDescending(out.top_cpu, rs, C8_Bottlenecked(rs), "cpu_pct")
           /\ C8_HighestDescending(out.top_mem, rs, C8_Bottlenecked(rs), "mem_pct")
           /\ \E f \in {"cpu_pct", "mem_pct"} :
                 C8_HighestDescending(out.top_oversized, rs, C8_OverProvisioned(rs), f)
           /\ \E f \in {"cpu_pct", "mem_pct"} :
                 C8_HighestDescending(out.top_stopped, rs, C8_Idle(rs), f)

\* What print_summary does instead (C8): for top-N >= 0 every printed list
\* has min(top-N, size of its group) rows; the bottlenecked group is printed
\* twice, its highest rows by CPU% and its highest rows by memory%, each in
\* descending order with an absent percentage below every present one; the
\* over-provisioned and the idle group are printed as their first rows in
\* collection order, unranked.
C8_RankedBottlenecksUnrankedRest ==
    (pc = "returned" /\ call.top >= 0) =>
        LET rs == call.rows
            out == ret[1]
            B == C8_Bottlenecked(rs)
            O == C8_OverProvisioned(rs)
            S == C8_Idle(rs)
        IN /\ Len(out.top_cpu) = Min(call.top, Cardinality(B))
           /\ Len(out.top_mem) = Min(call.top, Cardinality(B))
           /\ Len(out.top_oversized) = Min(call.top, Cardinality(O))
           /\ Len(out.top_stopped) = Min(call.top, Cardinality(S))
           /\ C8_HighestDescending(out.top_cpu, rs, B, "cpu_pct")
           /\ C8_HighestDescending(out.top_mem, rs, B, "mem_pct")
           /\ C8_FirstInOrder(out.top_oversized, rs, O)
           /\ C8_FirstInOrder(out.top_stopped, rs, S)

\* two bottlenecked rows, the second with the higher CPU%, are printed in
\* the other order; one of them has no memory percentage
C8_Witness ==
    /\ pc = "returned"
    /\ call.top = 2
    /\ Len(call.rows) = 2
    /\ C8_Bottlenecked(call.rows) = {1, 2}
    /\ IsNone(call.rows[1].cpu_pct)
    /\ ~IsNone(call.rows[2].cpu_pct)
    /\ ret[1].top_cpu = <<call.rows[2], call.rows[1]>>
    /\ ret[1].top_mem = <<call.rows[1], call.rows[2]>>

\* the text of a percentage cell read back: "" is absent, two decimals
C9_Parse(text) == IF text = <<>> THEN None ELSE Some(Val(text) * 10)

\* a percentage that has at most two decimals (or is absent)
C9_TwoDecimals(x) == IsNone(x) \/ Val(x) % 10 = 0

\* line re-parsed and re-classified under the default thresholds gives the
\* levels and the recommendation written in it
C9_Reproduces(line) ==
    LET cpu_level == classify(C9_Parse(line.cpu_pct), DEFAULT_CPU_LOW_MAX, DEFAULT_CPU_MED_MAX)
        mem_level == classify(C9_Parse(line.mem_pct), DEFAULT_MEM_LOW_MAX, DEFAULT_MEM_MED_MAX)
    IN /\ cpu_level = line.cpu_level
       /\ mem_level = line.mem_level
       /\ recommendation(cpu_level, mem_level, line.running) = line.recommendation

RunCalls == {calls[k] : k \in 1..Len(calls)}

\* the rows collected so far for cluster c of profile p
RunRowsOf(p, c) ==
    {r \in {all_rows[i] : i \in 1..Len(all_rows)} : r.account_id = p /\ r.cluster = c}

\* the clusters of a listing of n clusters that the --clusters filter keeps
RunKept(n) == {c \in 1..n : args.clusters = {} \/ c \in args.clusters}

\* C4: whatever session creation, cluster listing, service listing or
\* service description fails, the run ends normally having processed every
\* profile and every listed cluster; a failed profile and a failed cluster
\* contribute no rows, and every service described for a cluster has its
\* row in the final collection.
C4_FailuresSkipOnlyTheirUnit ==
    pc = "done" =>
        /\ exit_code \in {0, 2}
        /\ \A p \in 1..NProfiles :
              /\ \E x \in RunCalls : x.op = "session" /\ x.prof = p
              /\ \E k \in 1..Len(stdout) : stdout[k] = Out("collecting", p)
        /\ \A x \in RunCalls :
              /\ (x.op = "session" /\ x.ok) =>
                    \E y \in RunCalls : y.op = "list_clusters" /\ y.prof = x.prof
              /\ (x.op = "list_clusters" /\ x.ok) =>
                    \A c \in RunKept(x.n) :
                       \E y \in RunCalls :
                          y.op = "list_services" /\ y.prof = x.prof /\ y.cluster = c
              /\ (x.op = "list_services" /\ x.ok /\ x.n > 0) =>
                    \E y \in RunCalls :
                       y.op = "describe_services" /\ y.prof = x.prof /\ y.cluster = x.cluster
              /\ (x.op = "describe_services" /\ x.ok) =>
                    {r.service : r \in RunRowsOf(x.prof, x.cluster)} = 1..x.n
              /\ (x.op \in {"session", "list_clusters"} /\ ~x.ok) =>
                    \A i \in 1..Len(all_rows) : all_rows[i].account_id # x.prof
              /\ (x.op \in {"list_services", "describe_services"} /\ ~x.ok) =>
                    RunRowsOf(x.prof, x.cluster) = {}

\* the listing of the first cluster of the first profile failed; the second
\* cluster and the second profile still delivered their rows
C4_Witness ==
    /\ pc = "done"
    /\ exit_code = 0
    /\ EcsCall("list_services", 1, 1, FALSE, 0) \in RunCalls
    /\ RunRowsOf(1, 2) # {}
    /\ \E c \in 1..MaxClusters : RunRowsOf(2, c) # {}

\* C5: a failed metric lookup ends nothing.  Right after a service was
\* processed: every failed lookup gave the absent value an empty response
\* gives, both lookups of the first source were made, and the second
\* source's when the first gave nothing; the row of the service was
\* appended, with the values of the source that answered and level no_data
\* for an absent percentage.  The run never ends with a traceback, and at
\* its end every described service of every profile has a row.
C5_MetricFailureIsNoData ==
    /\ exit_code # 1
    /\ \A k \in 1..Len(stderr) : stderr[k].what # "traceback"
    /\ cw_calls # <<>> =>
          LET r == rows[Len(rows)]
              asked == [k \in 1..Len(cw_calls) |-> <<cw_calls[k].namespace, cw_calls[k].metric>>]
              value(k) == cw_calls[k].result.value
          IN /\ \A k \in 1..Len(cw_calls) :
                   cw_calls[k].failed => cw_calls[k].result = get_metric_avg(Data(<<>>))
             /\ Len(cw_calls) \in {2, 4}
             /\ SubSeq(asked, 1, 2) = <<<<NsInsights, "CpuUtilization">>,
                                        <<NsInsights, "MemoryUtilization">>>>
             /\ (IsNone(value(1)) /\ IsNone(value(2))) =>
                   /\ Len(cw_calls) = 4
                   /\ SubSeq(asked, 3, 4) = <<<<NsEcs, "CPUUtilization">>,
                                              <<NsEcs, "MemoryUtilization">>>>
             /\ rows # <<>>
             /\ r.account_id = prof
             /\ <<r.cpu_pct, r.mem_pct>> = <<value(Len(cw_calls) - 1), value(Len(cw_calls))>>
             /\ (r.cpu_level = "no_data") <=> IsNone(r.cpu_pct)
             /\ (r.mem_level = "no_data") <=> IsNone(r.mem_pct)
    /\ pc = "done" =>
          /\ exit_code \in {0, 2}
          /\ Len(stdout) >= NProfiles
          /\ \A x \in RunCalls : (x.op = "describe_services" /\ x.ok) =>
                Cardinality(RunRowsOf(x.prof, x.cluster)) = x.n

\* the CPU lookup of the first source failed, its memory lookup answered:
\* the row of a service of the second profile was appended all the same,
\* after the first profile's row
C5_Witness ==
    /\ Len(cw_calls) = 2
    /\ cw_calls[1].failed
    /\ ~cw_calls[2].failed
    /\ prof = 2
    /\ Len(all_rows) = 1
    /\ Len(rows) = 1
    /\ rows[1].cpu_level = "no_data"
    /\ rows[1].mem_pct = Some(37500)
    /\ rows[1].metrics_source = NsInsights

\* C6: main ends with status 2, nothing written and no summary, exactly
\* when the collection is empty; otherwise every collected row is in the
\* output, in order, before the summary is printed, and the status is 0.
C6_ExitTwoIffNothingCollected ==
    /\ summary # <<>> => Len(csv) = Len(all_rows) + 1
    /\ pc = "done" =>
          /\ (exit_code = 2) <=> (all_rows = <<>>)
          /\ all_rows = <<>> =>
                /\ csv = <<>>
                /\ summary = <<>>
                /\ \A k \in 1..Len(stdout) : stdout[k].line = "collecting"
                /\ stderr[Len(stderr)] = Diag("no_services", 0, 0)
          /\ all_rows # <<>> =>
                /\ exit_code = 0
                /\ Len(csv) = Len(all_rows) + 1
                /\ \A i \in 1..Len(all_rows) :
                      /\ csv[i + 1].account_id = all_rows[i].account_id
                      /\ csv[i + 1].cluster = all_rows[i].cluster
                      /\ csv[i + 1].service = all_rows[i].service
                /\ summary # <<>>
                /\ summary[1].total = Len(all_rows)

\* every profile was tried, calls failed, nothing was collected
C6_Witness ==
    /\ pc = "done"
    /\ exit_code = 2
    /\ all_rows = <<>>
    /\ csv = <<>>
    /\ summary = <<>>
    /\ Len(stdout) = NProfiles
    /\ Len(stderr) > 1
    /\ stderr[1].what # "no_services"

\* C7: every row built so far has cpu_level = classify(cpu_pct, CPU
\* thresholds), mem_level = classify(mem_pct, memory thresholds) and the
\* recommendation of these two levels and its running count.
C7_RowFieldsAreDerived ==
    \A r \in {rows[i] : i \in 1..Len(rows)} \cup {all_rows[i] : i \in 1..Len(all_rows)} :
        /\ r.cpu_level = classify(r.cpu_pct, args.cpu_low_max, args.cpu_med_max)
        /\ r.mem_level = classify(r.mem_pct, args.mem_low_max, args.mem_med_max)
        /\ r.action = recommendation(r.cpu_level, r.mem_level, r.running)

\* 37.5% is low for CPU and medium for memory under the default thresholds
C7_Witness ==
    /\ args = DefaultArgs
    /\ \E i \in 1..Len(all_rows) :
          /\ all_rows[i].cpu_pct = Some(37500)
          /\ all_rows[i].mem_pct = Some(37500)
          /\ all_rows[i].cpu_level = "low"
          /\ all_rows[i].mem_level = "medium"
          /\ all_rows[i].running > 0
          /\ all_rows[i].action = MsgIdleCpu

\* s is a prefix of t
C10_Prefix(s, t) == Len(s) <= Len(t) /\ SubSeq(t, 1, Len(s)) = s

\* the rows of s are in the order of their profiles and, within a profile,
\* of their clusters
C10_Ordered(s) ==
    \A i, j \in 1..Len(s) : i < j =>
        \/ s[i].account_id < s[j].account_id
        \/ (s[i].account_id = s[j].account_id /\ s[i].cluster <= s[j].cluster)

\* C10: every step keeps the rows collected so far as they are and only
\* appends; the profile index advances only when collect_for_profile has
\* returned and its rows were appended, the cluster index only forward by
\* one; a row is appended only for the current profile and cluster; the
\* collection stays ordered by profile and, within a profile, by cluster.
C10_SequentialAppendOnly ==
    [][/\ C10_Prefix(all_rows, all_rows')
       /\ (pc # "return_rows") => C10_Prefix(rows, rows')
       /\ prof' \in {prof, prof + 1}
       /\ (prof' = prof + 1) => (pc = "return_rows" /\ all_rows' = all_rows \o rows)
       /\ (all_rows' # all_rows) => prof' = prof + 1
       /\ (pc \notin {"main_loop", "list_clusters", "return_rows"}) => ci' \in {ci, ci + 1}
       /\ (rows' # rows /\ pc # "return_rows") =>
             /\ Len(rows') = Len(rows) + 1
             /\ rows'[Len(rows')].account_id = prof
             /\ rows'[Len(rows')].cluster = cluster_arns[ci]
       /\ C10_Ordered(all_rows' \o rows')]_vars

\* the final collection holds the rows of the two clusters of the first
\* profile, in their order, before a row of the second profile
C10_Witness ==
    /\ pc = "done"
    /\ Len(all_rows) = 3
    /\ <<all_rows[1].account_id, all_rows[1].cluster>> = <<1, 1>>
    /\ <<all_rows[2].account_id, all_rows[2].cluster>> = <<1, 2>>
    /\ all_rows[3].account_id = 2

\* C11: over all levels in {low, medium, high, no_data} and running >= 0,
\* recommendation returns the default "Looks OK" message exactly when
\* running > 0 and both levels are medium; for every other combination it
\* returns the message of one of the rules 1 to 7, and that rule's
\* predicate holds of the combination.
C11_DefaultOnlyForBothMedium ==
    pc = "returned" =>
        LET c == call.cpu_level
            m == call.mem_level
            r == call.running
            balanced == r > 0 /\ c = "medium" /\ m = "medium"
            captured ==
                \/ ret = <<MsgIdle>> /\ r = 0
                \/ ret = <<MsgHighCpu>> /\ c = "high" /\ m \in {"low", "medium"}
                \/ ret = <<MsgHighMem>> /\ m = "high"
                \/ ret = <<MsgOversized>> /\ c = "low" /\ m = "low"
                \/ ret = <<MsgIdleCpu>> /\ c = "low" /\ m \in {"medium", "high"}
                \/ ret = <<MsgIdleMem>> /\ c \in {"medium", "high"} /\ m = "low"
                \/ ret = <<MsgIncomplete>> /\ (c = "no_data" \/ m = "no_data")
        IN /\ (ret = <<MsgOk>>) <=> balanced
           /\ ~balanced => captured
           /\ balanced => ~captured

\* a running service with both levels medium gets the default message
C11_Witness ==
    /\ pc = "returned"
    /\ call = [cpu_level |-> "medium", mem_level |-> "medium", running |-> MaxRunning]
    /\ ret = <<MsgOk>>

====
